---- MODULE Spec2Model ----
(***************************************************************************)
(* A model of hassutils.database: the DataBase handle over a home-assistant *)
(* sqlite file (construction, the with-scope that opens and closes the      *)
(* connection, the read queries) and the module-level temperature helpers.  *)
(*                                                                          *)
(* Texts the code inspects character by character (entity_id under LIKE,    *)
(* the state column under float()) are sequences of one-character strings.  *)
(* A Python float is modelled by the exact rational it denotes, a record    *)
(* [n, d] in lowest terms with d > 0: rounding is abstracted away.          *)
(***************************************************************************)
EXTENDS Integers, Sequences, FiniteSets, TLC

VARIABLES
    states,     \* the rows of the "states" table of the sqlite file, in rowid order
    db,         \* the DataBase object the caller holds: NoObject, or [db_path, conn]
    conns,      \* every sqlite3 connection opened so far: <<[path, open]>>
    depth,      \* how many with-scopes of db the caller is inside
    outcome     \* the last call the caller made: [op, args, raised, value]

vars == <<states, db, conns, depth, outcome>>

----------------------------------------------------------------------------
(* Bounds of the model.                                                     *)

MaxRows == 2        \* rows in the states table
MaxTime == 2        \* instants 1..MaxTime
MaxConns == 3       \* connections opened during one behaviour

----------------------------------------------------------------------------
(* Python values.                                                           *)

None == "None"

\* A call that returned v.
Return(v) == [raised |-> None, value |-> v]

\* A call that raised the exception exc.
Raise(exc) == [raised |-> exc, value |-> <<>>]

RECURSIVE GCD(_, _)
GCD(a, b) == IF b = 0 THEN a ELSE GCD(b, a % b)

Abs(i) == IF i < 0 THEN -i ELSE i

\* The rational n/d (d # 0) in lowest terms.
Rat(n, d) ==
    LET g == GCD(Abs(n), Abs(d))
        s == IF d < 0 THEN -1 ELSE 1
    IN  [n |-> (s * n) \div g, d |-> (s * d) \div g]

RatOfInt(i) == [n |-> i, d |-> 1]
RatAdd(x, i) == Rat(x.n + i * x.d, x.d)
RatSub(x, i) == Rat(x.n - i * x.d, x.d)
RatMul(x, i) == Rat(x.n * i, x.d)
RatDiv(x, i) == Rat(x.n, x.d * i)

----------------------------------------------------------------------------
(* Unit names.                                                              *)

DEGREE_C == "°C"            \* the two-character text U+00B0 C
DEGREE_F == "°F"
ESCAPED_C == "\\u00b0C"     \* the seven-character text backslash u 0 0 b 0 C
ESCAPED_F == "\\u00b0F"

\* UNIT_MAP as a function on its keys; its second key is spelt "farenheit".
UNIT_MAP == [k \in {"celsius", "farenheit"} |->
                IF k = "celsius" THEN DEGREE_C ELSE DEGREE_F]

\* A mutant of convert_temp_units: the equal-units shortcut is missing.
convert_no_identity(value, current_unit, target_unit) ==
    IF target_unit = ESCAPED_C /\ current_unit = ESCAPED_F
        THEN Return(RatDiv(RatMul(RatSub(value, 32), 5), 9))
    ELSE IF target_unit = ESCAPED_F /\ current_unit = ESCAPED_C
        THEN Return(RatAdd(RatDiv(RatMul(value, 9), 5), 32))
    ELSE Raise("RuntimeError")

\* A mutant of convert_temp_units: an unknown pair passes the value through.
convert_passthrough(value, current_unit, target_unit) ==
    IF current_unit = target_unit
        THEN Return(value)
    ELSE IF target_unit = ESCAPED_C /\ current_unit = ESCAPED_F
        THEN Return(RatDiv(RatMul(RatSub(value, 32), 5), 9))
    ELSE IF target_unit = ESCAPED_F /\ current_unit = ESCAPED_C
        THEN Return(RatAdd(RatDiv(RatMul(value, 9), 5), 32))
    ELSE Return(value)

convert_temp_units(value, current_unit, target_unit) ==
    IF current_unit = target_unit
        THEN Return(value)
    ELSE IF target_unit = ESCAPED_C /\ current_unit = ESCAPED_F
        THEN Return(RatDiv(RatMul(RatSub(value, 32), 5), 9))
    ELSE IF target_unit = ESCAPED_F /\ current_unit = ESCAPED_C
        THEN Return(RatAdd(RatDiv(RatMul(value, 9), 5), 32))
    ELSE Raise("RuntimeError")

----------------------------------------------------------------------------
(* Texts, and the two library calls that read them character by character.  *)

Digits == <<"0", "1", "2", "3", "4", "5", "6", "7", "8", "9">>

UpperCase == <<"A", "B", "C", "D", "E", "F", "G", "H", "I", "J", "K", "L", "M",
               "N", "O", "P", "Q", "R", "S", "T", "U", "V", "W", "X", "Y", "Z">>
LowerCase == <<"a", "b", "c", "d", "e", "f", "g", "h", "i", "j", "k", "l", "m",
               "n", "o", "p", "q", "r", "s", "t", "u", "v", "w", "x", "y", "z">>

\* sqlite folds the ASCII upper-case letters before LIKE compares two characters.
Fold == [c \in {UpperCase[i] : i \in 1..Len(UpperCase)} |->
            LowerCase[CHOOSE i \in 1..Len(UpperCase) : UpperCase[i] = c]]

Lower(c) == IF c \in DOMAIN Fold THEN Fold[c] ELSE c

\* sqlite's "s LIKE p": % matches any run of characters, _ any one character,
\* every other character itself, ASCII letters without regard to case.
RECURSIVE Like(_, _)
Like(s, p) ==
    IF p = <<>> THEN s = <<>>
    ELSE IF Head(p) = "%"
        THEN Like(s, Tail(p)) \/ (s # <<>> /\ Like(Tail(s), p))
    ELSE /\ s # <<>>
         /\ (Head(p) = "_" \/ Lower(Head(s)) = Lower(Head(p)))
         /\ Like(Tail(s), Tail(p))

IsDigit(c) == \E i \in 1..Len(Digits) : Digits[i] = c
DigitValue(c) == (CHOOSE i \in 1..Len(Digits) : Digits[i] = c) - 1

RECURSIVE Decimal(_, _)
Decimal(s, acc) ==
    IF s = <<>> THEN acc ELSE Decimal(Tail(s), 10 * acc + DigitValue(Head(s)))

\* float(s) on the texts of the model: an optional sign and decimal digits give
\* the number, anything else raises ValueError.
float(s) ==
    LET body == IF s # <<>> /\ Head(s) = "-" THEN Tail(s) ELSE s
    IN  IF body # <<>> /\ \A i \in 1..Len(body) : IsDigit(body[i])
            THEN Return(RatOfInt(IF body = s THEN Decimal(body, 0)
                                             ELSE -Decimal(body, 0)))
            ELSE Raise("ValueError")

\* The attributes column is a text; the model keeps what json.loads makes of it:
\* [valid |-> FALSE] for a text that is no JSON, else the object it encodes.
json_loads(text) ==
    IF text.valid THEN Return(text.obj) ELSE Raise("JSONDecodeError")

\* metadata[key] on a dict.
GetItem(metadata, key) ==
    IF key \in DOMAIN metadata THEN Return(metadata[key]) ELSE Raise("KeyError")

----------------------------------------------------------------------------
(* The temperature query.                                                   *)

PATTERN == <<"%", "t", "e", "m", "p", "e", "r", "a", "t", "u", "r", "e", "%">>

\* The entity ids of the model's rows.
TemperatureId == <<"s", "e", "n", "s", "o", "r", ".", "t", "e", "m", "p", "e", "r", "a", "t", "u", "r", "e", "_", "1">>
HumidityId == <<"s", "e", "n", "s", "o", "r", ".", "h", "u", "m", "i", "d", "i", "t", "y", "_", "1">>
CapitalId == <<"s", "e", "n", "s", "o", "r", ".", "T", "e", "m", "p", "e", "r", "a", "t", "u", "r", "e", "_", "2">>
EntityIds == {TemperatureId, HumidityId, CapitalId}

\* entity_id LIKE '%temperature%', evaluated once for each entity id.
Matches == [e \in EntityIds |-> Like(e, PATTERN)]

\* A mutant of Where: the LIKE condition is missing.
WhereDomainOnly(row) == row.domain = "sensor"

\* WHERE domain=? AND entity_id LIKE ?  with ["sensor", "%temperature%"].
Where(row) == row.domain = "sensor" /\ Matches[row.entity_id]

\* The rowids, in table order, that the SELECT of fetch_temperature_readings
\* returns.
RECURSIVE SelectFrom(_, _)
SelectFrom(table, i) ==
    IF i > Len(table) THEN <<>>
    ELSE (IF Where(table[i]) THEN <<i>> ELSE <<>>) \o SelectFrom(table, i + 1)

Select(table) == SelectFrom(table, 1)

\* entry[1] domain, entry[2] entity_id, entry[3] state, entry[4] attributes,
\* entry[6] last_changed.
process_temp_entry(entry, units) ==
    IF units \notin DOMAIN UNIT_MAP THEN Raise("RuntimeError")
    ELSE
    LET target   == UNIT_MAP[units]
        metadata == json_loads(entry.attributes)
    IN  IF metadata.raised # None THEN metadata
        ELSE
        LET name == GetItem(metadata.value, "friendly_name")
            temp == float(entry.state)
            unit == GetItem(metadata.value, "unit_of_measurement")
        IN  IF name.raised # None THEN name
            ELSE IF temp.raised # None THEN temp
            ELSE IF unit.raised # None THEN unit
            ELSE
            LET converted == convert_temp_units(temp.value, unit.value, target)
            IN  IF converted.raised # None THEN converted
                ELSE Return(<<name.value, entry.last_changed, converted.value>>)

\* A mutant of Comprehension: a row that raises is skipped.
RECURSIVE ComprehensionSkipping(_, _)
ComprehensionSkipping(table, ids) ==
    IF ids = <<>> THEN Return(<<>>)
    ELSE
    LET first == process_temp_entry(table[Head(ids)], "celsius")
        rest  == ComprehensionSkipping(table, Tail(ids))
    IN  IF first.raised # None THEN rest
        ELSE Return(<<first.value>> \o rest.value)

\* [self.process_temp_entry(row) for row in temps]: the first row that raises
\* ends the comprehension with its exception and no list is built.
RECURSIVE Comprehension(_, _)
Comprehension(table, ids) ==
    IF ids = <<>> THEN Return(<<>>)
    ELSE
    LET first == process_temp_entry(table[Head(ids)], "celsius")
    IN  IF first.raised # None THEN first
        ELSE
        LET rest == Comprehension(table, Tail(ids))
        IN  IF rest.raised # None THEN rest
            ELSE Return(<<first.value>> \o rest.value)

\* fetch_temperature_readings on an open connection: from_date, to_date and
\* units are taken and never read.
fetch_temperature_readings(table, from_date, to_date, units) ==
    Comprehension(table, Select(table))

\* count_states on an open connection: entity_id is <<>> for None, <<e>> for e.
count_states(table, entity_id) ==
    IF entity_id = <<>>
        THEN Return(Len(table))
        ELSE Return(Cardinality({i \in 1..Len(table) :
                                    table[i].entity_id = entity_id[1]}))

----------------------------------------------------------------------------
(* The file system and the contents of the store the model explores.        *)

DbPath == "home-assistant_v2.db"
Paths == {DbPath, "madeup"}

\* os.path.exists: the one file there is.
exists(db_path) == db_path = DbPath

\* A last_changed text that reads as the instant t, and one that reads as none.
Timestamp(t) == [parses |-> TRUE, instant |-> t]
MalformedTimestamp == [parses |-> FALSE, instant |-> 0]

\* An attributes text that is the JSON of obj, and one that is no JSON.
Json(obj) == [valid |-> TRUE, obj |-> obj]
NotJson == [valid |-> FALSE, obj |-> <<>>]

Domains == {"sensor", "light"}
StateTexts == {<<"5", "0">>, <<"u", "n", "k", "n", "o", "w", "n">>}
AttributeTexts ==
    { Json([friendly_name |-> "Living Room", unit_of_measurement |-> DEGREE_C]),
      Json([friendly_name |-> "Living Room", unit_of_measurement |-> DEGREE_F]),
      Json([friendly_name |-> "Living Room", unit_of_measurement |-> "K"]),
      Json([friendly_name |-> "Living Room"]),
      Json([unit_of_measurement |-> DEGREE_C]),
      NotJson }
Timestamps == {Timestamp(t) : t \in 1..MaxTime} \cup {MalformedTimestamp}

\* A well-formed Celsius reading of a temperature sensor.
GoodRow ==
    [ domain       |-> "sensor",
      entity_id    |-> TemperatureId,
      state        |-> <<"5", "0">>,
      attributes   |-> Json([friendly_name |-> "Living Room",
                             unit_of_measurement |-> DEGREE_C]),
      last_changed |-> Timestamp(1) ]

\* The rows of the model: GoodRow, and GoodRow with one column changed.
Rows ==
    {[GoodRow EXCEPT !.domain = x] : x \in Domains}
    \cup {[GoodRow EXCEPT !.entity_id = x] : x \in EntityIds}
    \cup {[GoodRow EXCEPT !.state = x] : x \in StateTexts}
    \cup {[GoodRow EXCEPT !.attributes = x] : x \in AttributeTexts}
    \cup {[GoodRow EXCEPT !.last_changed = x] : x \in Timestamps}

TablesOf(rows) == UNION {[1..n -> rows] : n \in 0..MaxRows}

\* from_date and to_date: <<>> for None, <<t>> for the instant t.
OptionalTimes == {<<>>} \cup {<<t>> : t \in 1..MaxTime}

\* units: the default of fetch_temperature_readings and other spellings.
DefaultUnits == "celcius"
UnitArgs == {DefaultUnits, "celsius", "Fahrenheit", "kelvin"}

\* The calls of fetch_temperature_readings the model makes: every time window
\* with the default units, and every units with no window.
FetchCalls ==
    [from_date : OptionalTimes, to_date : OptionalTimes, units : {DefaultUnits}]
    \cup [from_date : {<<>>}, to_date : {<<>>}, units : UnitArgs]

CountCalls == {<<>>} \cup {<<e>> : e \in EntityIds}

----------------------------------------------------------------------------
(* The DataBase object and its callers.                                     *)

NoObject == <<>>
NoConn == 0

NoCall == [op |-> None, args |-> <<>>, raised |-> None, value |-> <<>>]

Called(op, args, result) ==
    [op |-> op, args |-> args, raised |-> result.raised, value |-> result.value]

\* A mutant of InitResult: the existence check is missing.
InitResultUnchecked(db_path) == Return([db_path |-> db_path, conn |-> NoConn])

\* DataBase.__init__: the object built, or ConnectionError.
InitResult(db_path) ==
    IF ~exists(db_path)
        THEN Raise("ConnectionError")
        ELSE Return([db_path |-> db_path, conn |-> NoConn])

\* db = DataBase(db_path), made outside any with-scope of the object held.
Construct(db_path) ==
    /\ depth = 0
    /\ LET r == InitResult(db_path)
       IN  /\ db' = IF r.raised = None THEN r.value ELSE db
           /\ outcome' = Called("__init__", <<db_path>>,
                                 IF r.raised = None THEN Return(<<>>) ELSE r)
    /\ UNCHANGED <<states, conns, depth>>

\* The connections once the object stops referring to connection c: the
\* interpreter may finalize (close) an unreferenced connection at once, later,
\* or never, so both outcomes are taken.
Dropped(c, finalized) ==
    IF c # NoConn /\ finalized THEN [conns EXCEPT ![c].open = FALSE] ELSE conns

\* self.conn.close() inside __exit__, guarded by self.conn is not None.
Closed(c) ==
    IF c # NoConn THEN [conns EXCEPT ![c].open = FALSE] ELSE conns

\* DataBase.__enter__: entering a with-scope of the object. self.conn is
\* overwritten by the new connection whatever it held.
Enter ==
    /\ db # NoObject
    /\ Len(conns) < MaxConns
    /\ \E finalized \in BOOLEAN :
          conns' = Append(Dropped(db.conn, finalized),
                          [path |-> db.db_path, open |-> TRUE])
    /\ db' = [db EXCEPT !.conn = Len(conns) + 1]
    /\ depth' = depth + 1
    /\ outcome' = Called("__enter__", <<>>, Return(<<>>))
    /\ UNCHANGED states

\* DataBase.__exit__: leaving a with-scope, normally or with an exception in
\* flight (the arguments are ignored).
Exit ==
    /\ db # NoObject
    /\ depth > 0
    /\ conns' = Closed(db.conn)
    /\ depth' = depth - 1
    /\ outcome' = Called("__exit__", <<>>, Return(<<>>))
    /\ UNCHANGED <<states, db>>

\* self.conn.cursor() and c.execute(...) before any row is read.
Cursor ==
    IF db.conn = NoConn THEN Raise("AttributeError")
    ELSE IF ~conns[db.conn].open THEN Raise("ProgrammingError")
    ELSE Return(<<>>)

\* db.fetch_temperature_readings(from_date, to_date, units)
Fetch(from_date, to_date, units) ==
    /\ db # NoObject
    /\ outcome' = Called("fetch_temperature_readings",
                         [from_date |-> from_date, to_date |-> to_date,
                          units |-> units],
                         IF Cursor.raised # None THEN Cursor
                         ELSE fetch_temperature_readings(
                                  states, from_date, to_date, units))
    /\ UNCHANGED <<states, db, conns, depth>>

\* db.count_states(entity_id)
CountStates(entity_id) ==
    /\ db # NoObject
    /\ outcome' = Called("count_states", <<entity_id>>,
                         IF Cursor.raised # None THEN Cursor
                         ELSE count_states(states, entity_id))
    /\ UNCHANGED <<states, db, conns, depth>>

\* convert_temp_units(value, current_unit, target_unit), called on its own.
Convert(value, current_unit, target_unit) ==
    /\ outcome' = Called("convert_temp_units",
                         [value |-> value, current_unit |-> current_unit,
                          target_unit |-> target_unit],
                         convert_temp_units(RatOfInt(value), current_unit,
                                            target_unit))
    /\ UNCHANGED <<states, db, conns, depth>>

----------------------------------------------------------------------------
(* Specifications.                                                          *)

\* The life of a handle, over a store that is empty, holds one good row, or
\* holds a good row and a row whose attributes are no JSON.
LifeTables ==
    { <<>>, <<GoodRow>>, <<GoodRow, [GoodRow EXCEPT !.attributes = NotJson]>> }

Init ==
    /\ states \in LifeTables
    /\ db = NoObject
    /\ conns = <<>>
    /\ depth = 0
    /\ outcome = NoCall

Next ==
    \/ \E db_path \in Paths : Construct(db_path)
    \/ Enter
    \/ Exit
    \/ \E call \in FetchCalls : Fetch(call.from_date, call.to_date, call.units)
    \/ \E entity_id \in CountCalls : CountStates(entity_id)

Spec == Init /\ [][Next]_vars

\* Queries inside  with DataBase(DbPath) as db:  over every store of the model.
InitQuery ==
    /\ states \in TablesOf(Rows)
    /\ db = [db_path |-> DbPath, conn |-> 1]
    /\ conns = <<[path |-> DbPath, open |-> TRUE]>>
    /\ depth = 1
    /\ outcome = NoCall

NextQuery ==
    \/ \E call \in FetchCalls : Fetch(call.from_date, call.to_date, call.units)
    \/ \E entity_id \in CountCalls : CountStates(entity_id)

SpecQuery == InitQuery /\ [][NextQuery]_vars

\* convert_temp_units as a pure function of its three arguments.
Values == {-40, 0, 32, 50, 100, 212}
Units == {"celsius", "fahrenheit", "kelvin", "K",
          DEGREE_C, DEGREE_F, ESCAPED_C, ESCAPED_F}

InitConvert ==
    /\ states = <<>>
    /\ db = NoObject
    /\ conns = <<>>
    /\ depth = 0
    /\ outcome = NoCall

NextConvert ==
    \E value \in Values, current_unit \in Units, target_unit \in Units :
        Convert(value, current_unit, target_unit)

SpecConvert == InitConvert /\ [][NextConvert]_vars

----------------------------------------------------------------------------
(* What the claims speak of.                                                *)

LastFetch == outcome.op = "fetch_temperature_readings"
LastConvert == outcome.op = "convert_temp_units"

\* The rows the last fetch read, in the order it read them.
Fetched == [i \in 1..Len(Select(states)) |-> states[Select(states)[i]]]

\* needle occurs in s, characters compared after the folding fold.
Occurs(needle, s, fold(_)) ==
    \E k \in 0..(Len(s) - Len(needle)) :
        \A j \in 1..Len(needle) : fold(s[k + j]) = needle[j]

Same(c) == c

temperature == <<"t", "e", "m", "p", "e", "r", "a", "t", "u", "r", "e">>

\* The temperature scale a unit name stands for: the canonical name, the degree
\* symbol UNIT_MAP gives it, or that symbol written as an escape sequence; any
\* other name stands for itself.
Scale(unit) ==
    IF unit \in {"celsius", DEGREE_C, ESCAPED_C} THEN "C"
    ELSE IF unit \in {"fahrenheit", DEGREE_F, ESCAPED_F} THEN "F"
    ELSE unit

\* A units argument that is celsius or fahrenheit in some mix of cases.
IsCanonicalUnit(units) == units \in {"celsius", "Fahrenheit"}

\* The instant t lies in the window from_date..to_date, both ends included.
InWindow(t, from_date, to_date) ==
    /\ from_date # <<>> => t >= from_date[1]
    /\ to_date # <<>> => t <= to_date[1]

HasKeys(row) ==
    /\ row.attributes.valid
    /\ "friendly_name" \in DOMAIN row.attributes.obj
    /\ "unit_of_measurement" \in DOMAIN row.attributes.obj

Numeric(text) ==
    LET body == IF text # <<>> /\ Head(text) = "-" THEN Tail(text) ELSE text
    IN  body # <<>> /\ \A i \in 1..Len(body) : \E d \in 1..Len(Digits) : body[i] = Digits[d]

\* The row cannot be turned into a reading: its attributes are no JSON or lack
\* a key, its state is no number, or its unit is neither Celsius nor Fahrenheit.
Untransformable(row) ==
    \/ ~HasKeys(row)
    \/ ~Numeric(row.state)
    \/ Scale(row.attributes.obj.unit_of_measurement) \notin {"C", "F"}

----------------------------------------------------------------------------
(* The claims.                                                              *)

\* C1: a store holding exactly one well-formed sensor-temperature row in
\* Fahrenheit, fetched with target unit Celsius, gives exactly one record, whose
\* name is the row's friendly_name and whose value is (state - 32) * 5/9.
C1_OneFahrenheitRowConverted ==
    ( /\ LastFetch
      /\ outcome.args.units = "celsius"
      /\ Len(states) = 1
      /\ states[1] = [GoodRow EXCEPT !.attributes =
                         Json([friendly_name |-> "Living Room",
                               unit_of_measurement |-> DEGREE_F])] )
    => /\ outcome.raised = None
       /\ Len(outcome.value) = 1
       /\ outcome.value[1][1] = "Living Room"
       /\ outcome.value[1][3] = Rat((50 - 32) * 5, 9)

\* C2: every record of a fetch comes from a row whose last_changed lies in the
\* window from_date..to_date, both ends included and each end optional; with
\* from_date after to_date the fetch returns no record.
C2_RecordsInsideWindow ==
    (LastFetch /\ outcome.raised = None)
    => /\ Len(outcome.value) = Len(Fetched)
       /\ \A i \in 1..Len(outcome.value) :
             Fetched[i].last_changed.parses
             => InWindow(Fetched[i].last_changed.instant,
                         outcome.args.from_date, outcome.args.to_date)

\* C3: a fetch whose units is neither celsius nor fahrenheit (in any mix of
\* cases) fails, whatever the store holds, and returns no readings.
C3_UnknownTargetUnitFails ==
    (LastFetch /\ ~IsCanonicalUnit(outcome.args.units))
    => outcome.raised # None /\ outcome.value = <<>>

\* C4: convert from Celsius to Fahrenheit returns value * 9/5 + 32, and from
\* Fahrenheit to Celsius (value - 32) * 5/9.
C4_ConversionFormulas ==
    LastConvert
    => /\ ( Scale(outcome.args.current_unit) = "C"
            /\ Scale(outcome.args.target_unit) = "F" )
          => /\ outcome.raised = None
             /\ outcome.value = Rat(outcome.args.value * 9 + 32 * 5, 5)
       /\ ( Scale(outcome.args.current_unit) = "F"
            /\ Scale(outcome.args.target_unit) = "C" )
          => /\ outcome.raised = None
             /\ outcome.value = Rat((outcome.args.value - 32) * 5, 9)

\* C5: convert(value, unit, unit) returns value itself, for every unit name,
\* and does not fail.
C5_SameUnitIsIdentity ==
    (LastConvert /\ outcome.args.current_unit = outcome.args.target_unit)
    => /\ outcome.raised = None
       /\ outcome.value = RatOfInt(outcome.args.value)

C5_Witness ==
    /\ LastConvert
    /\ outcome.args.current_unit = "kelvin"
    /\ outcome.args.target_unit = "kelvin"
    /\ outcome.args.value = 100
    /\ outcome.value = RatOfInt(100)

\* C6: convert between two different scales that are not Celsius and
\* Fahrenheit (celsius to kelvin, say) raises and returns no number.
C6_OtherPairsRaise ==
    ( /\ LastConvert
      /\ Scale(outcome.args.current_unit) # Scale(outcome.args.target_unit)
      /\ {Scale(outcome.args.current_unit), Scale(outcome.args.target_unit)}
            # {"C", "F"} )
    => outcome.raised = "RuntimeError" /\ outcome.value = <<>>

C6_Witness ==
    /\ LastConvert
    /\ outcome.args.current_unit = "celsius"
    /\ outcome.args.target_unit = "kelvin"
    /\ outcome.raised = "RuntimeError"

\* C7 as stated: every record of a fetch is built from a row whose domain is
\* "sensor" and whose entity_id contains "temperature"; a sensor row with
\* entity_id "sensor.humidity_1" gives no record.
C7_Original ==
    (LastFetch /\ outcome.raised = None)
    => /\ Len(outcome.value) = Len(Fetched)
       /\ \A i \in 1..Len(outcome.value) :
             /\ Fetched[i].domain = "sensor"
             /\ Occurs(temperature, Fetched[i].entity_id, Same)
             /\ Fetched[i].entity_id # HumidityId

\* C7 as amended: every record of a fetch is built from a row whose domain is
\* "sensor" and whose entity_id contains "temperature" in some mix of upper
\* and lower case; a sensor row with entity_id "sensor.humidity_1" gives no
\* record.
C7_RecordsFromSensorTemperatureRows ==
    (LastFetch /\ outcome.raised = None)
    => /\ Len(outcome.value) = Len(Fetched)
       /\ \A i \in 1..Len(outcome.value) :
             /\ Fetched[i].domain = "sensor"
             /\ Occurs(temperature, Fetched[i].entity_id, Lower)
             /\ Fetched[i].entity_id # HumidityId
             /\ outcome.value[i][2] = Fetched[i].last_changed

C7_Witness ==
    /\ LastFetch
    /\ outcome.raised = None
    /\ Len(outcome.value) = 1
    /\ Len(states) = 2
    /\ states[1].entity_id = HumidityId
    /\ states[1].domain = "sensor"

\* C8: DataBase(path) on a path that does not exist raises ConnectionError and
\* no connection is ever opened for such a path; DataBase(path) on an existing
\* file succeeds with no connection yet, and entering it succeeds with an open
\* connection to that file.
C8_MissingFileNeverConnected ==
    /\ outcome.op = "__init__"
       => /\ ~exists(outcome.args[1]) <=> outcome.raised = "ConnectionError"
          /\ exists(outcome.args[1])
             => /\ outcome.raised = None
                /\ db = [db_path |-> outcome.args[1], conn |-> NoConn]
    /\ \A i \in 1..Len(conns) : conns[i].path \in Paths /\ exists(conns[i].path)
    /\ outcome.op = "__enter__"
       => /\ outcome.raised = None
          /\ db.conn = Len(conns)
          /\ conns[db.conn] = [path |-> db.db_path, open |-> TRUE]

C8_Witness ==
    /\ outcome.op = "__init__"
    /\ outcome.args[1] = "madeup"
    /\ outcome.raised = "ConnectionError"
    /\ db # NoObject
    /\ Len(conns) > 0

\* C9: once every with-scope of the handle has been left, no connection opened
\* by entering is still open.
C9_AllClosedOutsideScope ==
    depth = 0 => \A i \in 1..Len(conns) : ~conns[i].open

====
